---------------------------- MODULE Spec2Model ----------------------------
(***************************************************************************)
(* Model of the pose server of python-server/: the landmark merge engine   *)
(* (mvc/controller.py), its smoothing strategies (smoothing/), the         *)
(* observable pose store (mvc/model.py), the payload adapter               *)
(* (payload/adapter.py) and the WebSocket fan-out view                     *)
(* (transport/websocket_view.py).                                          *)
(*                                                                         *)
(* Numbers.  A float cell of an ndarray is an integer counted in 1/Unit,   *)
(* or the sentinel NaN.  Unit is a power of the denominator of alpha, so   *)
(* that every EMA blend of the bounded runs explored here is an exact      *)
(* rational; float32 rounding is not modelled.                             *)
(*                                                                         *)
(* References.  controller._last and model._arr are references to ndarray  *)
(* objects.  At most two objects are live; arrIsLast says whether the two  *)
(* references denote the same object, so that an in-place write through    *)
(* one is seen through the other.                                          *)
(***************************************************************************)
EXTENDS Integers, Sequences, FiniteSets, TLC

\* ------------------------------------------------------------------ bounds
\* Landmarks per frame (33 in the program).
NumLandmarks == 2
\* Frames the producer loop acquires in one run.
MaxFrames == 3
\* Frames the producer loop acquires in a run of the whole pipeline.
MaxUpdates == 2
\* WebSocket connections that may exist.
MaxClients == 2
\* Observers that may be attached to the store.
MaxObservers == 2
\* merges and clients of the runs that are followed to their termination
LiveFrames == 2
LiveClients == 1

\* --------------------------------------------------------------- numbers
\* np.nan: a cell that holds no number.
NaN == -1
\* alpha is AlphaNum / AlphaDen: 0.35 = 7/20, 0.15 = 3/20.
AlphaDen == 20
Unit == AlphaDen ^ MaxFrames
\* vis_thresh = 0.5
VisThresh == Unit \div 2
\* round_ndigits = 4: payload numbers are counted in 1/10^4.
RoundDigits == 4
Pow10 == 10 ^ RoundDigits

Idx == 0 .. (NumLandmarks - 1)
Cols == 1 .. 4
VIS == 4

IsNan(c) == c = NaN
NanRow == <<NaN, NaN, NaN, NaN>>
\* np.full((33, 4), np.nan)
NanArray == [i \in Idx |-> NanRow]
\* np.isnan(a).all()
AllNan(a) == \A i \in Idx : \A c \in Cols : IsNan(a[i][c])
\* A landmark is unknown when all four of its fields are NaN.
Unknown(row) == \A c \in Cols : IsNan(row[c])

\* ---------------------------------------------------------------- inputs
\* A landmark (x, y, z, visibility): coordinates in whole units, visibility
\* in tenths.
Lm(x, y, z, v) == <<x * Unit, y * Unit, z * Unit, (v * Unit) \div 10>>
\* The detections a frame may hold for landmark i.  Every landmark may be
\* clearly visible or below the threshold; odd landmarks may also sit exactly
\* at the threshold, even ones may be seen at a second position.
LandmarkInputs(i) ==
    IF i % 2 = 0
      THEN {Lm(1, 1, 1, 9), Lm(2, 2, 2, 9), Lm(1, 3, 2, 3)}
      ELSE {Lm(2, 2, 2, 9), Lm(3, 1, 2, 5), Lm(1, 3, 2, 3)}
Frames == {f \in [Idx -> UNION {LandmarkInputs(i) : i \in Idx}] :
             \A i \in Idx : f[i] \in LandmarkInputs(i)}

\* The frames fed to the whole pipeline: every landmark visible at its first
\* position, and landmark 0 alone visible at the second position.
First(i) == IF i % 2 = 0 THEN Lm(1, 1, 1, 9) ELSE Lm(3, 1, 2, 5)
SampleFrames ==
    { [i \in Idx |-> First(i)],
      [i \in Idx |-> IF i = 0 THEN Lm(2, 2, 2, 9) ELSE Lm(1, 3, 2, 3)] }
\* The one frame of the runs followed to their termination, where the text
\* of a payload matters only by the merge it comes from.
SteadyFrames == { [i \in Idx |-> First(i)] }

\* ------------------------------------------------------------- smoothing
NoSmoothing == [kind |-> "none", alpha |-> 0]
EmaSmoother(a) == [kind |-> "ema", alpha |-> a]
Smoothers == {NoSmoothing, EmaSmoother(7), EmaSmoother(3)}

\* np.nan_to_num(prev, nan=0.0), one cell
NanToNum(c) == IF IsNan(c) THEN 0 ELSE c

\* Variant: the two weights exchanged.
EmaCellSwapped(a, p, n) ==
    IF IsNan(n) THEN NaN
    ELSE (a * NanToNum(p) + (AlphaDen - a) * n) \div AlphaDen

\* Variant: the new value subtracted, the weight of prev raised to match.
EmaCellSignError(a, p, n) ==
    IF IsNan(n) THEN NaN
    ELSE ((AlphaDen + a) * NanToNum(p) - a * n) \div AlphaDen

\* (1.0 - alpha) * prev + alpha * new, one cell; NaN in new propagates.
EmaCell(a, p, n) ==
    IF IsNan(n) THEN NaN
    ELSE ((AlphaDen - a) * NanToNum(p) + a * n) \div AlphaDen

\* ISmoother.update on one accepted row (the operation is elementwise).
SmootherUpdate(sm, prev, new) ==
    IF sm.kind = "none" THEN new
    ELSE [c \in Cols |-> EmaCell(sm.alpha, prev[c], new[c])]

\* ---------------------------------------------------------- merge engine
\* Variant: a strict comparison.
AcceptedStrict(row) == ~IsNan(row[VIS]) /\ row[VIS] > VisThresh

\* cur[:, 3] >= self.vis_thresh, one row (a NaN compares false)
Accepted(row) == ~IsNan(row[VIS]) /\ row[VIS] >= VisThresh

\* Variant: the seeding frame is copied whole, whatever the mask.
MergeSeedCopiesAll(lst, cur) == [i \in Idx |-> cur[i]]

\* First frame: self._last[mask] = cur[mask], in place.
MergeSeed(lst, cur) ==
    [i \in Idx |-> IF Accepted(cur[i]) THEN cur[i] ELSE lst[i]]

\* Variant: merged starts from an all-NaN array instead of a copy.
MergeBlendForgets(sm, lst, cur) ==
    [i \in Idx |-> IF Accepted(cur[i]) THEN SmootherUpdate(sm, lst[i], cur[i])
                                        ELSE NanRow]

\* merged = self._last.copy(); merged[accept] = smoother.update(...)
MergeBlend(sm, lst, cur) ==
    [i \in Idx |-> IF Accepted(cur[i]) THEN SmootherUpdate(sm, lst[i], cur[i])
                                        ELSE lst[i]]

\* The array self._last denotes after _merge(cur).
MergeResult(sm, lst, cur) ==
    IF AllNan(lst) THEN MergeSeed(lst, cur) ELSE MergeBlend(sm, lst, cur)

\* TRUE when _merge writes into the existing object, FALSE when it rebinds
\* self._last to a fresh copy.
MergeInPlace(lst) == AllNan(lst)

\* --------------------------------------------------------- payload adapter
\* round(float(v), 4) of a finite v, counted in 1/Pow10 (ties to even).
Round4(v) ==
    LET q == v \div Unit
        t == (v % Unit) * Pow10
        k == t \div Unit
        rem == t % Unit
        up == (2 * rem > Unit) \/ (2 * rem = Unit /\ k % 2 = 1)
    IN  q * Pow10 + k + (IF up THEN 1 ELSE 0)

\* A JSON number is <<numerator, denominator>>; the literal NaN is NanLit.
NanLit == <<0, 0>>

\* UnityPoseAdapter._num
Num(ad, v) ==
    IF IsNan(v) THEN NanLit
    ELSE IF ad.rounded THEN <<Round4(v), Pow10>> ELSE <<v, Unit>>

\* Variant: the array itself whatever the option.
SafeKeepsNan(ad, a) == a

\* np.nan_to_num(arr33x4, nan=0.0) when nan_to_zero, else the array itself
Safe(ad, a) ==
    IF ad.nan_to_zero THEN [i \in Idx |-> [c \in Cols |-> NanToNum(a[i][c])]]
    ELSE a

\* UnityPoseAdapter.to_text: <<ts, pose>>, pose the list of records in id
\* order; ts is the reading of the clock.
ToText(ad, a, ts) ==
    <<ts, [n \in 1 .. NumLandmarks |->
             [id |-> n - 1,
              x |-> Num(ad, Safe(ad, a)[n - 1][1]),
              y |-> Num(ad, Safe(ad, a)[n - 1][2]),
              z |-> Num(ad, Safe(ad, a)[n - 1][3])]]>>

\* self._latest_text before any update
None == << >>
AppAdapter == [nan_to_zero |-> TRUE, rounded |-> TRUE]
\* Every UnityPoseAdapter: nan_to_zero on or off, round_ndigits 4 or None.
AdapterConfigs == [nan_to_zero : BOOLEAN, rounded : BOOLEAN]

\* ------------------------------------------------------------- observers
ObserverIds == {"console", "ws", "other"}
ClientIds == 1 .. MaxClients
LiveClientIds == 1 .. LiveClients

\* Variant: a payload already in the slot is kept.
StoreLatestKeepsFirst(old, text) == IF old = << >> THEN text ELSE old

\* with self._lock: self._latest_text = text
StoreLatest(old, text) == text

\* list.remove(x): drops the first occurrence
RECURSIVE Remove(_, _)
Remove(q, o) ==
    IF q = << >> THEN << >>
    ELSE IF Head(q) = o THEN Tail(q)
    ELSE <<Head(q)>> \o Remove(Tail(q), o)

VARIABLES
    smoother,     \* controller.smoother
    stop,         \* controller._stop (stop_event in server.py)
    last,         \* the array controller._last denotes
    cur,          \* the frame the loop holds (local cur)
    nframes,      \* frames acquired so far; also the reading of the clock
    pcP,          \* position of the producer thread
    arr,          \* the array model._arr denotes
    arrIsLast,    \* model._arr and controller._last are the same object
    observers,    \* model._observers
    notifyQ,      \* observers the running notify pass has still to call
    delivered,    \* calls the running notify pass has made: <<observer, array, raised>>
    adapter,      \* the view's adapter configuration
    wsText,       \* WebSocketView.update: local text
    lock,         \* holder of WebSocketView._lock
    latest_text,  \* WebSocketView._latest_text
    clients,      \* WebSocketView._clients
    conn,         \* state of each connection: new, open, closing, closed
    pcB,          \* position of the broadcast loop
    tickText,     \* _broadcast_loop: local text
    pending,      \* sends of the running gather that have not completed
    results,      \* outcome of each send of the running gather
    sent,         \* per client, the texts whose send was issued in this tick
    targets,      \* list(self._clients) of this tick
    sinceTick,    \* updates stored since the last snapshot: <<array, ts>>
    tickUpdates   \* updates stored between the previous snapshot and this one

engineVars == <<smoother, stop, last, cur, nframes>>
storeVars == <<arr, arrIsLast, observers, notifyQ, delivered>>
slotVars == <<adapter, wsText, lock, latest_text, sinceTick>>
netVars == <<clients, conn>>
tickVars == <<pcB, tickText, pending, results, sent, targets, tickUpdates>>
vars == <<smoother, stop, last, cur, nframes, pcP, arr, arrIsLast, observers,
          notifyQ, delivered, adapter, wsText, lock, latest_text, clients,
          conn, pcB, tickText, pending, results, sent, targets, sinceTick,
          tickUpdates>>

\* ------------------------------------------------------- producer thread
\* TrackerController._loop, one iteration with a detected pose, up to and
\* including merged = self._merge(cur); the frame is drawn from F, in a run
\* of at most max frames.
LoopMerge(F, max) ==
    /\ pcP = "read"
    /\ ~stop
    /\ nframes < max
    /\ \E f \in F :
         /\ cur' = f
         /\ last' = MergeResult(smoother, last, f)
         /\ IF MergeInPlace(last)
              THEN /\ arr' = (IF arrIsLast THEN MergeResult(smoother, last, f) ELSE arr)
                   /\ arrIsLast' = arrIsLast
              ELSE /\ arr' = arr
                   /\ arrIsLast' = FALSE
    /\ nframes' = nframes + 1
    /\ pcP' = "set"
    /\ UNCHANGED <<smoother, stop, observers, notifyQ, delivered>>
    /\ UNCHANGED <<slotVars, netVars, tickVars>>

\* Frames of a wrong landmark count: one row too few or one too many.
MalformedFrames ==
    UNION { {f \in [0 .. (n - 1) -> UNION {LandmarkInputs(i) : i \in 0 .. (n - 1)}] :
               \A i \in 0 .. (n - 1) : f[i] \in LandmarkInputs(i)} :
            n \in {NumLandmarks - 1, NumLandmarks + 1} }

\* _merge(cur) with a mask of the wrong length raises IndexError where the
\* mask indexes self._last: always in the seeding branch, and in the merge
\* branch only under `if accept.any()`.
MalformedRaises(lst, f) ==
    AllNan(lst) \/ \E i \in DOMAIN f : Accepted(f[i])

\* self._merge(cur) with a frame of a wrong landmark count.  When it raises,
\* nothing has been written; when it does not, self._last is rebound to an
\* equal copy and returned.
MergeMalformed(max) ==
    /\ pcP = "read"
    /\ ~stop
    /\ nframes < max
    /\ \E f \in MalformedFrames :
         /\ cur' = f
         /\ IF MalformedRaises(last, f)
              THEN /\ pcP' = "merge_raised"
                   /\ arrIsLast' = arrIsLast
              ELSE /\ pcP' = "set"
                   /\ arrIsLast' = FALSE
    /\ nframes' = nframes + 1
    /\ UNCHANGED <<smoother, stop, last, arr, observers, notifyQ, delivered>>
    /\ UNCHANGED <<slotVars, netVars, tickVars>>

\* PoseModel.set(merged): merged is the object self._last denotes; notify()
\* takes its snapshot list(self._observers).
ModelSet ==
    /\ pcP = "set"
    /\ arr' = last
    /\ arrIsLast' = TRUE
    /\ notifyQ' = observers
    /\ delivered' = << >>
    /\ pcP' = "notify"
    /\ UNCHANGED <<engineVars, observers, slotVars, netVars, tickVars>>

\* Variant: the exception leaves notify() and ends the producer thread.
AfterRaisePropagates == "raised"

\* What a raising observer does to the notify pass: the exception is caught
\* and printed, and the pass goes on.
AfterRaise == "notify"

\* notify(): obs.update(self._arr) of an observer other than the WebSocket
\* view.  ConsoleView prints; any other observer may return or raise.
NotifyObserver ==
    /\ pcP = "notify"
    /\ notifyQ # << >>
    /\ Head(notifyQ) # "ws"
    /\ \E raised \in (IF Head(notifyQ) = "console" THEN {FALSE} ELSE BOOLEAN) :
         /\ delivered' = Append(delivered, <<Head(notifyQ), arr, raised>>)
         /\ pcP' = (IF raised THEN AfterRaise ELSE "notify")
    /\ notifyQ' = Tail(notifyQ)
    /\ UNCHANGED <<engineVars, arr, arrIsLast, observers, slotVars, netVars,
                   tickVars>>

\* WebSocketView.update: text = self.adapter.to_text(arr33x4)
WsToText ==
    /\ pcP = "notify"
    /\ notifyQ # << >>
    /\ Head(notifyQ) = "ws"
    /\ wsText' = ToText(adapter, arr, nframes)
    /\ pcP' = "ws_text"
    /\ UNCHANGED <<engineVars, storeVars, adapter, lock, latest_text,
                   sinceTick, netVars, tickVars>>

\* WebSocketView.update: with self._lock (acquire)
WsAcquire ==
    /\ pcP = "ws_text"
    /\ lock = "free"
    /\ lock' = "producer"
    /\ pcP' = "ws_locked"
    /\ UNCHANGED <<engineVars, storeVars, adapter, wsText, latest_text,
                   sinceTick, netVars, tickVars>>

\* WebSocketView.update: self._latest_text = text, release, return
WsStore ==
    /\ pcP = "ws_locked"
    /\ latest_text' = StoreLatest(latest_text, wsText)
    /\ lock' = "free"
    /\ sinceTick' = Append(sinceTick, <<arr, nframes>>)
    /\ delivered' = Append(delivered, <<"ws", arr, FALSE>>)
    /\ notifyQ' = Tail(notifyQ)
    /\ pcP' = "notify"
    /\ UNCHANGED <<engineVars, arr, arrIsLast, observers, adapter, wsText,
                   netVars, tickVars>>

\* notify() has called every observer; set() returns to the loop.
NotifyReturn ==
    /\ pcP = "notify"
    /\ notifyQ = << >>
    /\ pcP' = "read"
    /\ UNCHANGED <<engineVars, storeVars, slotVars, netVars, tickVars>>

\* ------------------------------------------------------- store registry
\* PoseModel.attach, before the controller is started
Attach(o) ==
    /\ pcP = "setup"
    /\ Len(observers) < MaxObservers
    /\ observers' = Append(observers, o)
    /\ UNCHANGED <<engineVars, pcP, arr, arrIsLast, notifyQ, delivered,
                   slotVars, netVars, tickVars>>

\* PoseModel.detach of an attached observer
Detach(o) ==
    /\ pcP = "setup"
    /\ \E n \in 1 .. Len(observers) : observers[n] = o
    /\ observers' = Remove(observers, o)
    /\ UNCHANGED <<engineVars, pcP, arr, arrIsLast, notifyQ, delivered,
                   slotVars, netVars, tickVars>>

\* TrackerController.start
Start ==
    /\ pcP = "setup"
    /\ pcP' = "read"
    /\ UNCHANGED <<engineVars, storeVars, slotVars, netVars, tickVars>>

\* ---------------------------------------------------- connection handler
\* _handler: self._clients.add(ws).  Every connection is an object of its
\* own and connects once.
Connect(c) ==
    /\ conn[c] = "new"
    /\ conn' = [conn EXCEPT ![c] = "open"]
    /\ clients' = clients \cup {c}
    /\ UNCHANGED <<engineVars, pcP, storeVars, slotVars, tickVars>>

\* The peer closes or the connection breaks; the handler has not resumed.
PeerClose(c) ==
    /\ conn[c] = "open"
    /\ conn' = [conn EXCEPT ![c] = "closing"]
    /\ UNCHANGED <<engineVars, pcP, storeVars, slotVars, clients, tickVars>>

\* _handler: the async for ends; finally: self._clients.discard(ws)
HandlerExit(c) ==
    /\ conn[c] = "closing"
    /\ conn' = [conn EXCEPT ![c] = "closed"]
    /\ clients' = clients \ {c}
    /\ UNCHANGED <<engineVars, pcP, storeVars, slotVars, tickVars>>

\* --------------------------------------------------------- broadcast loop
\* with self._lock (acquire)
TickAcquire ==
    /\ pcB = "tick"
    /\ lock = "free"
    /\ lock' = "broadcast"
    /\ pcB' = "locked"
    /\ UNCHANGED <<engineVars, pcP, storeVars, adapter, wsText, latest_text,
                   sinceTick, netVars, tickText, pending, results, sent,
                   targets, tickUpdates>>

\* The clients a tick keeps after its sends: the tick leaves the set alone.
AfterGather(cl, res) == cl

\* Variant: any text, even none, is sent when a client is connected.
ShouldSendAnyText(text, cl) == cl # {}

\* if text and self._clients
ShouldSend(text, cl) == text # None /\ cl # {}

\* Variant: the tick takes the payload out of the slot.
SlotConsumed(text) == None

\* The slot after the tick has read it: the tick only reads.
SlotAfterSnapshot(text) == text

\* Variant: the sends run inside the with block, the lock still held.
LockHeldAcrossSends == "broadcast"

\* The lock when the with block of the tick is left.
LockAfterSnapshot == "free"

\* text = self._latest_text, release; if text and self._clients: the sends
\* c.send(text) for c in list(self._clients) are created and gathered.
TickSnapshot ==
    /\ pcB = "locked"
    /\ lock' = LockAfterSnapshot
    /\ tickText' = latest_text
    /\ latest_text' = SlotAfterSnapshot(latest_text)
    /\ tickUpdates' = sinceTick
    /\ sinceTick' = << >>
    /\ sent' = [c \in ClientIds |-> << >>]
    /\ results' = [c \in ClientIds |-> "none"]
    /\ IF ShouldSend(latest_text, clients)
         THEN /\ pending' = clients
              /\ targets' = clients
              /\ pcB' = "gather"
         ELSE /\ pending' = {}
              /\ targets' = {}
              /\ pcB' = "sleep"
    /\ UNCHANGED <<engineVars, pcP, storeVars, adapter, wsText, netVars>>

\* Variant: gather without return_exceptions, the exception leaves the loop.
AfterSendErrorPropagates == "dead"

\* What a failed send does to the broadcast loop: gather(...,
\* return_exceptions=True) returns the exception as a result.
AfterSendError == "gather"

\* Variant: each send reads the slot again.
SendTextReadsSlot(snap, slot) == slot

\* The text a send of the tick carries: the tick's local text.
SendText(snap, slot) == snap

\* One c.send(text) of the gather runs: it succeeds on an open connection and
\* raises ConnectionClosed otherwise.
Send(c) ==
    /\ pcB = "gather"
    /\ c \in pending
    /\ sent' = [sent EXCEPT ![c] = Append(@, SendText(tickText, latest_text))]
    /\ results' = [results EXCEPT ![c] = IF conn[c] = "open" THEN "ok" ELSE "exc"]
    /\ pending' = pending \ {c}
    /\ pcB' = (IF conn[c] = "open" THEN "gather" ELSE AfterSendError)
    /\ UNCHANGED <<engineVars, pcP, storeVars, slotVars, netVars, tickText,
                   targets, tickUpdates>>

\* gather returns; await asyncio.sleep(period) starts
GatherDone ==
    /\ pcB = "gather"
    /\ pending = {}
    /\ clients' = AfterGather(clients, results)
    /\ pcB' = "sleep"
    /\ UNCHANGED <<engineVars, pcP, storeVars, slotVars, conn, tickText,
                   pending, results, sent, targets, tickUpdates>>

\* the sleep ends; the loop starts its next tick
TimerFire ==
    /\ pcB = "sleep"
    /\ pcB' = "tick"
    /\ UNCHANGED <<engineVars, pcP, storeVars, slotVars, netVars, tickText,
                   pending, results, sent, targets, tickUpdates>>

\* ------------------------------------------------------------ life cycle
\* _loop: cv2.VideoCapture(self.camera_index) opened
CameraOpen ==
    /\ pcP = "camera"
    /\ pcP' = "read"
    /\ UNCHANGED <<engineVars, storeVars, slotVars, netVars, tickVars>>

\* _loop: if not cap.isOpened(): print(...); return
CameraFail ==
    /\ pcP = "camera"
    /\ pcP' = "failed"
    /\ UNCHANGED <<engineVars, storeVars, slotVars, netVars, tickVars>>

\* _loop: while not self._stop ends; finally: cap.release()
LoopExit ==
    /\ pcP = "read"
    /\ stop
    /\ pcP' = "stopped"
    /\ UNCHANGED <<engineVars, storeVars, slotVars, netVars, tickVars>>

\* The task awaiting ws_view.run() is cancelled: CancelledError is raised at
\* the await the broadcast loop is suspended in, the gather or the sleep.
Cancel ==
    /\ pcB \in {"gather", "sleep"}
    /\ pcB' = "cancelled"
    /\ pending' = {}
    /\ UNCHANGED <<engineVars, pcP, storeVars, slotVars, netVars, tickText,
                   results, sent, targets, tickUpdates>>

\* Variant: stop() leaves the flag as it is.
StopValueUnset == FALSE

\* TrackerController.stop: self._stop = True
StopValue == TRUE

\* main: finally: ctrl.stop()
CtrlStop ==
    /\ pcB = "cancelled"
    /\ stop' = StopValue
    /\ pcB' = "exited"
    /\ UNCHANGED <<smoother, last, cur, nframes, pcP, storeVars, slotVars,
                   netVars, tickText, pending, results, sent, targets,
                   tickUpdates>>

\* ----------------------------------------------------- server.py monolith
\* EMA_ALPHA = 0.35, in units of 1/AlphaDen
ServerAlpha == 7

\* ema_update, one cell: new where prev is NaN, the blend elsewhere
EmaUpdateCell(a, p, n) ==
    IF IsNan(p) THEN n
    ELSE IF IsNan(n) THEN NaN
    ELSE ((AlphaDen - a) * p + a * n) \div AlphaDen

\* merge_frame(cur33x4): the array last_good denotes afterwards
MergeFrame(lst, f) ==
    IF AllNan(lst) THEN MergeSeed(lst, f)
    ELSE [i \in Idx |->
            IF Accepted(f[i])
              THEN [c \in Cols |-> EmaUpdateCell(ServerAlpha, lst[i][c], f[i][c])]
              ELSE lst[i]]

\* to_unity_payload_text: NaN replaced by 0.0, no rounding
ServerAdapter == [nan_to_zero |-> TRUE, rounded |-> FALSE]

\* camera_worker: the camera opened
ServerCameraOpen ==
    /\ pcP = "camera"
    /\ pcP' = "read"
    /\ UNCHANGED <<engineVars, storeVars, slotVars, netVars, tickVars>>

\* camera_worker: if not cap.isOpened(): print(...); stop_event.set(); return
ServerCameraFail ==
    /\ pcP = "camera"
    /\ stop' = TRUE
    /\ pcP' = "failed"
    /\ UNCHANGED <<smoother, last, cur, nframes, storeVars, slotVars, netVars,
                   tickVars>>

\* camera_worker, one iteration with a pose: merge_frame(cur), then
\* latest_payload_text = to_unity_payload_text(merged)
ServerLoop ==
    /\ pcP = "read"
    /\ ~stop
    /\ nframes < MaxUpdates
    /\ \E f \in SampleFrames :
         /\ cur' = f
         /\ last' = MergeFrame(last, f)
         /\ latest_text' = ToText(ServerAdapter, MergeFrame(last, f), nframes + 1)
    /\ nframes' = nframes + 1
    /\ UNCHANGED <<smoother, stop, pcP, storeVars, adapter, wsText, lock,
                   sinceTick, netVars, tickVars>>

\* camera_worker: the preview window gets q or Esc: stop_event.set(); break
ServerQuitKey ==
    /\ pcP = "read"
    /\ ~stop
    /\ stop' = TRUE
    /\ pcP' = "stopped"
    /\ UNCHANGED <<smoother, last, cur, nframes, storeVars, slotVars, netVars,
                   tickVars>>

\* broadcast_loop, from the loop test to its await: the loop ends when
\* stop_event is set; otherwise text = latest_payload_text and the sends are
\* created when there is a client and a payload.
ServerTick ==
    /\ pcB = "tick"
    /\ IF stop
         THEN /\ pcB' = "stopped"
              /\ UNCHANGED <<tickText, pending, targets, sent, results>>
         ELSE /\ sent' = [c \in ClientIds |-> << >>]
              /\ results' = [c \in ClientIds |-> "none"]
              /\ IF clients # {} /\ latest_text # None
                   THEN /\ tickText' = latest_text
                        /\ pending' = clients
                        /\ targets' = clients
                        /\ pcB' = "gather"
                   ELSE /\ tickText' = tickText
                        /\ pending' = {}
                        /\ targets' = {}
                        /\ pcB' = "sleep"
    /\ UNCHANGED <<engineVars, pcP, storeVars, slotVars, netVars, tickUpdates>>

\* ------------------------------------------------------- specifications
InitState(ad) ==
    /\ stop = FALSE
    /\ last = NanArray
    /\ cur = NanArray
    /\ nframes = 0
    /\ arr = NanArray
    /\ arrIsLast = FALSE
    /\ notifyQ = << >>
    /\ delivered = << >>
    /\ adapter = ad
    /\ wsText = None
    /\ lock = "free"
    /\ latest_text = None
    /\ clients = {}
    /\ conn = [c \in ClientIds |-> "new"]
    /\ pcB = "idle"
    /\ tickText = None
    /\ pending = {}
    /\ results = [c \in ClientIds |-> "none"]
    /\ sent = [c \in ClientIds |-> << >>]
    /\ targets = {}
    /\ sinceTick = << >>
    /\ tickUpdates = << >>

InitCommon == InitState(AppAdapter)

\* The merge engine alone, under every smoother, fed every frame.
InitEngine ==
    /\ InitCommon
    /\ smoother \in Smoothers
    /\ observers = << >>
    /\ pcP = "read"

NextEngine == LoopMerge(Frames, MaxFrames) \/ ModelSet \/ NotifyReturn

SpecEngine == InitEngine /\ [][NextEngine]_vars

\* The merge engine fed well-formed and malformed frames.
NextMalformed ==
    \/ LoopMerge(Frames, MaxUpdates)
    \/ MergeMalformed(MaxUpdates)
    \/ ModelSet
    \/ NotifyReturn

SpecMalformed == InitEngine /\ [][NextMalformed]_vars

\* A WebSocketView with any adapter, alone on the model, fed every frame.
InitAdapter ==
    /\ \E ad \in AdapterConfigs : InitState(ad)
    /\ smoother = EmaSmoother(3)
    /\ observers = <<"ws">>
    /\ pcP = "read"

NextAdapter ==
    \/ LoopMerge(Frames, MaxUpdates)
    \/ ModelSet
    \/ WsToText
    \/ WsAcquire
    \/ WsStore
    \/ NotifyReturn

SpecAdapter == InitAdapter /\ [][NextAdapter]_vars

\* The store with any list of observers attached before the start.
InitStore ==
    /\ InitCommon
    /\ smoother = EmaSmoother(3)
    /\ observers = << >>
    /\ pcP = "setup"

NextStore ==
    \/ \E o \in ObserverIds : Attach(o)
    \/ \E o \in ObserverIds : Detach(o)
    \/ Start
    \/ LoopMerge(SampleFrames, MaxUpdates)
    \/ ModelSet
    \/ NotifyObserver
    \/ WsToText
    \/ WsAcquire
    \/ WsStore
    \/ NotifyReturn

SpecStore == InitStore /\ [][NextStore]_vars

\* The application as app.py wires it: ConsoleView and WebSocketView
\* attached, EMA smoothing with alpha 0.15, controller started and the
\* broadcast loop running.
Init ==
    /\ InitCommon
    /\ smoother = EmaSmoother(3)
    /\ observers = <<"console", "ws">>
    /\ pcP = "read"

RunBroadcast ==
    /\ pcB = "idle"
    /\ pcB' = "tick"
    /\ UNCHANGED <<engineVars, pcP, storeVars, slotVars, netVars, tickText,
                   pending, results, sent, targets, tickUpdates>>

Next ==
    \/ LoopMerge(SampleFrames, MaxUpdates)
    \/ ModelSet
    \/ NotifyObserver
    \/ WsToText
    \/ WsAcquire
    \/ WsStore
    \/ NotifyReturn
    \/ RunBroadcast
    \/ \E c \in ClientIds : Connect(c)
    \/ \E c \in ClientIds : PeerClose(c)
    \/ \E c \in ClientIds : HandlerExit(c)
    \/ TickAcquire
    \/ TickSnapshot
    \/ \E c \in ClientIds : Send(c)
    \/ GatherDone
    \/ TimerFire

Spec == Init /\ [][Next]_vars

\* The application followed to its shutdown: the camera opens or not, the
\* task running the view is cancelled, main stops the controller.
InitLive ==
    /\ InitCommon
    /\ smoother = EmaSmoother(3)
    /\ observers = <<"console", "ws">>
    /\ pcP = "camera"

NextLive ==
    \/ CameraOpen
    \/ CameraFail
    \/ LoopMerge(SteadyFrames, LiveFrames)
    \/ LoopExit
    \/ ModelSet
    \/ NotifyObserver
    \/ WsToText
    \/ WsAcquire
    \/ WsStore
    \/ NotifyReturn
    \/ RunBroadcast
    \/ \E c \in LiveClientIds : Connect(c)
    \/ \E c \in LiveClientIds : PeerClose(c)
    \/ \E c \in LiveClientIds : HandlerExit(c)
    \/ TickAcquire
    \/ TickSnapshot
    \/ \E c \in LiveClientIds : Send(c)
    \/ GatherDone
    \/ TimerFire
    \/ Cancel
    \/ CtrlStop

\* The steps the camera thread takes on its own once it can: all its steps
\* but the arrival of a frame and the acquisition of the lock.
ProducerStep ==
    \/ CameraOpen
    \/ CameraFail
    \/ LoopExit
    \/ ModelSet
    \/ NotifyObserver
    \/ WsToText
    \/ WsStore
    \/ NotifyReturn

\* The camera thread runs; a thread waiting for the lock gets it when it is
\* released again and again; the with block of a tick and the finally of
\* main run to their end.  Nothing is assumed of sends, timer or clients.
FairLive ==
    /\ WF_vars(ProducerStep)
    /\ SF_vars(WsAcquire)
    /\ WF_vars(TickSnapshot)
    /\ WF_vars(CtrlStop)

SpecLive == InitLive /\ [][NextLive]_vars /\ FairLive

\* server.py: camera thread and broadcast loop around the globals.
InitServer ==
    /\ InitState(ServerAdapter)
    /\ smoother = EmaSmoother(ServerAlpha)
    /\ observers = << >>
    /\ pcP = "camera"

NextServer ==
    \/ ServerCameraOpen
    \/ ServerCameraFail
    \/ ServerLoop
    \/ ServerQuitKey
    \/ RunBroadcast
    \/ \E c \in ClientIds : Connect(c)
    \/ \E c \in ClientIds : PeerClose(c)
    \/ \E c \in ClientIds : HandlerExit(c)
    \/ ServerTick
    \/ \E c \in ClientIds : Send(c)
    \/ GatherDone
    \/ TimerFire

SpecServer == InitServer /\ [][NextServer]_vars
\* ================================================================ claims
\* visibility >= vis_thresh, read off the frame
Visible(row) == row[VIS] >= VisThresh
\* The step merged = self._merge(cur) of the producer loop.
MergeStep == pcP = "read" /\ pcP' = "set"
Position(row) == <<row[1], row[2], row[3]>>

\* C1: hold-last-good.  Under either smoother, a merge leaves a known
\* landmark whose visibility in the frame is below the threshold exactly as
\* it was, and a known landmark is never unknown after a merge.
HoldLastGood ==
    [][MergeStep =>
         \A k \in Idx :
           ~Unknown(last[k]) =>
             /\ ~Visible(cur'[k]) => last'[k] = last[k]
             /\ ~Unknown(last'[k])]_vars

\* A merge has rejected a landmark that was known before it.
HoldLastGoodWitness ==
    /\ pcP = "set"
    /\ nframes >= 2
    /\ \E k \in Idx : ~Visible(cur[k]) /\ ~Unknown(last[k])

\* C2: seeding.  A merge into an all-unknown state stores the frame's
\* landmark, unblended, at every index the frame shows at or above the
\* threshold, and leaves every other index unknown, under any smoother.
Seeding ==
    [][(MergeStep /\ \A k \in Idx : Unknown(last[k])) =>
         \A i \in Idx :
           last'[i] = (IF Visible(cur'[i]) THEN cur'[i] ELSE NanRow)]_vars

\* The first merge of an EMA engine has accepted one landmark and rejected
\* another.
SeedingWitness ==
    /\ pcP = "set"
    /\ nframes = 1
    /\ smoother.kind = "ema"
    /\ \E i, j \in Idx :
         /\ Visible(cur[i]) /\ last[i] = cur[i]
         /\ ~Visible(cur[j]) /\ Unknown(last[j])

\* C3: independent acceptance.  With NoSmoothing a merge stores the frame's
\* landmark at every index at or above the threshold and keeps the stored
\* landmark at every other index.
IndependentAcceptance ==
    [][(MergeStep /\ smoother.kind = "none") =>
         \A i \in Idx :
           last'[i] = (IF Visible(cur'[i]) THEN cur'[i] ELSE last[i])]_vars

\* A pass-through merge after the seeding one has replaced one landmark and
\* held another, known one.
IndependentAcceptanceWitness ==
    /\ pcP = "set"
    /\ nframes >= 2
    /\ smoother.kind = "none"
    /\ \E i, j \in Idx :
         /\ Visible(cur[i]) /\ last[i] = cur[i]
         /\ ~Visible(cur[j]) /\ ~Unknown(last[j]) /\ last[j] # cur[j]

\* C4: EMA first sight.  With the EMA smoother a merge that accepts a
\* landmark whose stored value is unknown stores the frame's value exactly.
EmaFirstSight ==
    [][(MergeStep /\ smoother.kind = "ema") =>
         \A k \in Idx :
           (Unknown(last[k]) /\ Visible(cur'[k])) => last'[k] = cur'[k]]_vars

\* The blend (1 - alpha) * v1 + alpha * v2 of two cells, alpha = a / AlphaDen.
Blend(a, v1, v2) == ((AlphaDen - a) * v1 + a * v2) \div AlphaDen

\* C5: end-to-end blend.  From the all-unknown state the first frame that
\* shows landmark 0 is adopted exactly, a second frame showing it leaves
\* (1 - alpha) * v1 + alpha * v2 in every coordinate, and with alpha 0.35,
\* (1,1,1) then (2,2,2) leave (1.35, 1.35, 1.35).
EndToEndBlend ==
    [][(MergeStep /\ smoother.kind = "ema") =>
         /\ (nframes = 0 /\ Visible(cur'[0])) => last'[0] = cur'[0]
         /\ (nframes = 1 /\ Visible(cur[0]) /\ Visible(cur'[0])) =>
              \A c \in 1 .. 3 :
                last'[0][c] = Blend(smoother.alpha, cur[0][c], cur'[0][c])
         /\ ( /\ nframes = 1
              /\ smoother.alpha = 7
              /\ cur[0] = Lm(1, 1, 1, 9)
              /\ cur'[0] = Lm(2, 2, 2, 9) ) =>
              Position(last'[0]) =
                <<(135 * Unit) \div 100, (135 * Unit) \div 100, (135 * Unit) \div 100>>]_vars

\* The second merge of the scenario has run: alpha 0.35, landmark 0 seen at
\* (2,2,2) and stored at (1.35, 1.35, 1.35).
EndToEndBlendWitness ==
    /\ pcP = "set"
    /\ nframes = 2
    /\ smoother = EmaSmoother(7)
    /\ cur[0] = Lm(2, 2, 2, 9)
    /\ Position(last[0]) =
         <<(135 * Unit) \div 100, (135 * Unit) \div 100, (135 * Unit) \div 100>>

\* C6: broadcast load-shedding.  When one or more updates were stored
\* between two snapshots of the broadcast loop, the tick of the second
\* snapshot issues exactly one send to every client connected at that
\* snapshot and none to any other, and the text is the adapter output of the
\* last of those updates; no client is ever sent two texts in one tick.
LoadShedding ==
    /\ \A c \in ClientIds : Len(sent[c]) <= 1
    /\ (pcB = "sleep" /\ tickUpdates # << >>) =>
         \A c \in ClientIds :
           sent[c] =
             IF c \in targets
               THEN <<ToText(adapter, tickUpdates[Len(tickUpdates)][1],
                             tickUpdates[Len(tickUpdates)][2])>>
               ELSE << >>

\* A tick has completed its sends after two updates arrived since the
\* previous snapshot, with a client connected.
LoadSheddingWitness ==
    /\ pcB = "sleep"
    /\ Len(tickUpdates) >= 2
    /\ tickUpdates[1][1] # tickUpdates[2][1]
    /\ targets # {}

LivePcB == {"idle", "tick", "locked", "gather", "sleep"}

\* C7: client isolation.  Whatever sends of a tick fail, every client that
\* was connected at the tick's snapshot is issued one send of the tick's
\* text, and the broadcast loop stays alive.
ClientIsolation ==
    /\ pcB \in LivePcB
    /\ pcB = "gather" => \A c \in targets \ pending : sent[c] = <<tickText>>
    /\ pcB = "sleep" => \A c \in targets : sent[c] = <<tickText>>

\* A tick has completed in which the send to one client failed and the send
\* to another succeeded.
ClientIsolationWitness ==
    /\ pcB = "sleep"
    /\ \E c, d \in targets :
         /\ results[c] = "exc"
         /\ results[d] = "ok"
         /\ sent[d] = <<tickText>>

\* C8: a failed client is pruned.  When a tick begins, no client whose send
\* failed in the previous tick is a member of the client set.
FailedClientPruned ==
    pcB = "tick" => \A c \in ClientIds : results[c] = "exc" => c \notin clients

LivePcP == {"setup", "read", "set", "notify", "ws_text", "ws_locked"}
DeliveredTo == [n \in 1 .. Len(delivered) |-> delivered[n][1]]

\* C9: observer failure isolation.  Whichever observers raise, a pass of
\* notify() calls the attached observers once each, in attachment order,
\* with the state just installed, and set() returns to the producer loop:
\* the producer thread never ends by an observer's exception.
ObserverIsolation ==
    /\ pcP \in LivePcP
    /\ pcP \in {"notify", "ws_text", "ws_locked"} =>
         /\ DeliveredTo \o notifyQ = observers
         /\ \A n \in 1 .. Len(delivered) : delivered[n][2] = arr
    /\ (pcP = "read" /\ nframes > 0) =>
         /\ DeliveredTo = observers
         /\ \A n \in 1 .. Len(delivered) : delivered[n][2] = arr

\* set() has returned after a pass in which the first observer raised and
\* the second was still called.
ObserverIsolationWitness ==
    /\ pcP = "read"
    /\ nframes > 0
    /\ Len(delivered) = 2
    /\ delivered[1][3]
    /\ ~delivered[2][3]

\* C10: snapshot independence.  No merge alters the array installed in the
\* store: the store's value changes only by set().
SnapshotIndependence == [][MergeStep => arr' = arr]_vars

\* C11: malformed frame.  A merge call with a frame whose landmark count is
\* wrong raises and leaves the stored state as it was.
MalformedFails ==
    [][(pcP = "read" /\ pcP' # "read" /\ DOMAIN cur' # Idx) =>
         (pcP' = "merge_raised" /\ last' = last)]_vars
\* The step of the broadcast loop that leaves the with block of a tick.
SnapshotStep == pcB = "locked" /\ pcB' # "locked"

\* C12: no-op tick.  A tick that finds no connected client, or no payload
\* ever produced, creates no send, raises nothing and goes on to its sleep,
\* leaving the latest-payload slot and the client set as they were.
NoOpTick ==
    [][(SnapshotStep /\ (latest_text = None \/ clients = {})) =>
         /\ pcB' = "sleep"
         /\ pending' = {}
         /\ \A c \in ClientIds : sent'[c] = << >>
         /\ latest_text' = latest_text
         /\ clients' = clients]_vars

\* A tick has gone to sleep without a send although a client is connected:
\* no payload had been produced.
NoOpTickWitness ==
    /\ pcB = "sleep"
    /\ tickText = None
    /\ latest_text = None
    /\ clients # {}
    /\ \A c \in ClientIds : sent[c] = << >>

\* C18: one payload per tick.  The text of a tick is the value the slot held
\* at the tick's snapshot, it does not change while the sends of the tick
\* are in flight, and every send issued in the tick carries it, whatever the
\* producer stores and whichever clients connect or disconnect meanwhile.
OnePayloadPerTick ==
    [][/\ SnapshotStep => tickText' = latest_text
       /\ pcB = "gather" =>
            /\ tickText' = tickText
            /\ \A c \in ClientIds :
                 sent'[c] # sent[c] => sent'[c] = Append(sent[c], tickText)]_vars

\* Sends of a tick are still in flight, one has been issued, the producer
\* has overwritten the slot since the snapshot and a client of the tick has
\* disconnected after it.
OnePayloadPerTickWitness ==
    /\ pcB = "gather"
    /\ pending # {}
    /\ \E c \in targets \ pending : sent[c] = <<tickText>>
    /\ latest_text # tickText
    /\ targets \ clients # {}

\* C20: monotone freshness.  The slot, once filled, is never empty again and
\* never goes back to an earlier production; neither does the text of
\* successive ticks, which is the only text a tick sends.
MonotoneFreshness ==
    [][/\ latest_text # None =>
            (latest_text' # None /\ latest_text'[1] >= latest_text[1])
       /\ tickText # None =>
            (tickText' # None /\ tickText'[1] >= tickText[1])
       /\ \A c \in ClientIds :
            (sent'[c] # sent[c] /\ sent'[c] # << >>) =>
               sent'[c][Len(sent'[c])] = tickText]_vars

\* A tick has sent a client the payload of the second merged state, stored
\* by the one update the slot received since the previous snapshot.
MonotoneFreshnessWitness ==
    /\ pcB = "gather"
    /\ tickText # None
    /\ tickText[1] = 2
    /\ Len(tickUpdates) = 1
    /\ \E c \in targets \ pending : sent[c] = <<tickText>>
Dist(a, b) == IF a >= b THEN a - b ELSE b - a

VisibilityNotSmoothed ==
    [][(MergeStep /\ smoother.kind = "ema") =>
         \A k \in Idx :
           (~Unknown(last[k]) /\ Visible(cur'[k])) =>
             last'[k][VIS] = cur'[k][VIS]]_vars
\* The three coordinates emitted for a landmark.
Fields(rec) == <<rec.x, rec.y, rec.z>>

\* C13: adapter NaN policy.  With nan_to_zero, the text built from a pose
\* state has one record per landmark, ids ascending from 0, each with the
\* keys id, x, y, z only; record i carries the coordinates of landmark i,
\* an unknown coordinate is 0.0 and no number is the NaN literal.
AdapterNanPolicy ==
    (pcP \in {"ws_text", "ws_locked"} /\ adapter.nan_to_zero) =>
      LET pose == wsText[2] IN
        /\ Len(pose) = NumLandmarks
        /\ \A n \in 1 .. NumLandmarks :
             /\ DOMAIN pose[n] = {"id", "x", "y", "z"}
             /\ pose[n].id = n - 1
             /\ \A c \in 1 .. 3 :
                  LET num == Fields(pose[n])[c]
                      cell == arr[n - 1][c]
                  IN  /\ num # NanLit
                      /\ num[2] # 0
                      /\ IsNan(cell) => num[1] = 0
                      /\ ~IsNan(cell) =>
                           num = IF adapter.rounded THEN <<Round4(cell), Pow10>>
                                 ELSE <<cell, Unit>>

\* A state in which landmark 0 is unknown and landmark 1 known has been
\* serialised with nan_to_zero: record 0 is all zeros, record 1 is not.
AdapterNanPolicyWitness ==
    /\ pcP = "ws_text"
    /\ adapter.nan_to_zero
    /\ Unknown(arr[0])
    /\ ~Unknown(arr[1])
    /\ \A c \in 1 .. 3 : Fields(wsText[2][1])[c][1] = 0
    /\ Fields(wsText[2][2])[1][1] # 0
\* C14: coordinated shutdown.  Once the broadcast run has been cancelled the
\* broadcast loop runs no more, the controller is told to stop and the
\* producer loop ends: from then on both contexts stay terminated.
CoordinatedShutdown ==
    [](pcB \in {"cancelled", "exited"} =>
         <>[](/\ pcB = "exited"
              /\ stop
              /\ pcP \in {"stopped", "failed"}))

\* The run was cancelled after the producer had merged a frame, and both
\* the broadcast task and the producer loop have ended.
CoordinatedShutdownWitness ==
    /\ pcB = "exited"
    /\ stop
    /\ pcP = "stopped"
    /\ nframes >= 1

\* C15: producer fault does not stop broadcasting.  When the producer could
\* not open its camera, the broadcast loop is not ended by it.
ProducerFaultIsolated == pcP = "failed" => pcB # "stopped"

\* C19: the producer never waits on the network.  The broadcast side holds
\* the lock only inside the with block of a tick, never across a send or
\* the sleep, and every update that has built its text stores it and
\* returns, whatever becomes of the sends and of the timer.
ProducerNeverWaits ==
    /\ [](lock = "broadcast" => pcB = "locked")
    /\ (pcP = "ws_text") ~> (pcP = "notify")

\* An update has stored a new payload and returned while a send of the
\* current tick is still pending.
ProducerNeverWaitsWitness ==
    /\ pcP = "notify"
    /\ pcB = "gather"
    /\ pending # {}
    /\ tickText # None
    /\ latest_text # tickText
    /\ lock = "free"
=============================================================================
